---- MODULE Spec2Model ----
(***************************************************************************)
(* Room synchronization engine of co-mindforest2.                          *)
(*                                                                         *)
(* Two handler variants share one design:                                  *)
(*   "branch"  src/unnamed/part_000      (EdgeKV, per-user branches)        *)
(*   "kv"      src/functions/collab.js   (COLLAB_KV, one shared snapshot)   *)
(* Every mutating handler is a read-modify-write of one JSON document      *)
(* stored under the key room:<roomId>.                                     *)
(*                                                                         *)
(* Modelling conventions                                                   *)
(*  - a missing request field / JS undefined is the string Absent;         *)
(*  - a missing object-valued field is a record with the one field absent; *)
(*  - room.activeUsers and room.userBranches that are missing from the     *)
(*    stored document are the empty sequence / empty function: every       *)
(*    handler normalises them that way (?. / || [] / if (!x) x = {});      *)
(*  - JSON.stringify/JSON.parse of the values used here (strings, numbers, *)
(*    booleans, arrays, plain objects) reproduces the value, so the stored *)
(*    value is the room record itself; values are immutable, which is the  *)
(*    copy a serialised document gives;                                    *)
(*  - Date.now() is the variable clock; new Date().toISOString() is the    *)
(*    same instant;                                                        *)
(*  - of an activeUsers entry only id, joinedAt and isHost are kept        *)
(*    (name, color and region are display data no handler reads);          *)
(*  - the lastUpdated stamps of the room and of each branch are not kept:  *)
(*    every mutating handler overwrites them with Date.now() and no        *)
(*    handler reads them to decide anything.                               *)
(***************************************************************************)
EXTENDS Integers, Sequences, FiniteSets, TLC

\* ---------------------------------------------------------------- bounds
MaxClock == 2
MaxActive == 2
MaxLog == 3
MaxLongClock == 103
MaxPollLog == 2

\* ------------------------------------------------------ program constants
MaxOperations == 100
KeepOperations == 50

\* ------------------------------------------------------------ input sets
Absent == "absent"
EmptyObject == "{}"

Variants == {"branch", "kv"}
RoomIds == {"r1"}
Users == {"u1", "u2"}
Ids == Users \cup {"u3"}
Snapshots == {"S1", "S2"}
UserNames == {"ann"}
Payloads == {"add"}
Faults == {"none", "get", "put", "delete"}

NoRoomData == [absent |-> TRUE]
NoUserData == [absent |-> TRUE]

\* The activeUsers lists a caller may put in roomData: none, or one host entry.
SeedLists ==
  {<< >>} \cup {<<[id |-> i, joinedAt |-> 0, isHost |-> TRUE]>> : i \in Ids}

RoomDatas == {[name |-> "map", activeUsers |-> a] : a \in SeedLists}

\* The userData objects a caller may send with join_room.
UserDatas == {[id |-> i, joinedAt |-> 0, isHost |-> FALSE] : i \in Ids}

VARIABLES variant, store, clock, last, joined, scenarioStep, inFlight, client

vars ==
  <<variant, store, clock, last, joined, scenarioStep, inFlight, client>>

\* ------------------------------------------------------------- helpers
RoomKey(roomId) == "room:" \o roomId

DefaultName(userId) == "user_" \o userId

\* !x for a string-valued field
Falsy(x) == x = Absent

\* A null element of a stored activeUsers array.
NullEntry == [absent |-> TRUE]

\* u.id of a null element is a TypeError: filter reads every element,
\* findIndex the elements up to the first one whose id is userId.
FilterThrows(seq) == \E i \in 1..Len(seq) : seq[i] = NullEntry

FindThrows(seq, userId) ==
  \E i \in 1..Len(seq) :
    /\ seq[i] = NullEntry
    /\ \A j \in 1..(i - 1) : seq[j] # NullEntry /\ seq[j].id # userId

\* Array.prototype.findIndex(u => u.id === userId): 0-based, -1 when none
FindIndex(seq, userId) ==
  IF \E i \in 1..Len(seq) : seq[i].id = userId
  THEN (CHOOSE i \in 1..Len(seq) :
          /\ seq[i].id = userId
          /\ \A j \in 1..(i - 1) : seq[j].id # userId) - 1
  ELSE -1

\* Array.prototype.filter(u => u.id !== userId)
FilterOut(seq, userId) == SelectSeq(seq, LAMBDA e : e.id # userId)

\* Array.prototype.slice(-n)
SliceLast(seq, n) ==
  IF Len(seq) <= n THEN seq ELSE SubSeq(seq, Len(seq) - n + 1, Len(seq))

\* obj[key] = value on a plain object
SetKey(obj, key, value) == (key :> value) @@ obj

\* delete of a key of the store
RemoveKey(st, key) == [k \in (DOMAIN st) \ {key} |-> st[k]]

Reply(st, status, body) == [store |-> st, status |-> status, body |-> body]

\* ------------------------------------------------------------ the store
\* edgeKV.get / env.COLLAB_KV.get: the stored text, undefined for a missing
\* key, or an exception when the store call fails.
StoreGet(st, key, fault) ==
  IF fault = "get" THEN [kind |-> "throw"]
  ELSE IF key \in DOMAIN st THEN [kind |-> "value", value |-> st[key]]
  ELSE [kind |-> "undefined"]

\* part_000 edgeKVGet: a failed store call is caught and undefined returned
edgeKVGet(st, key, fault) ==
  LET r == StoreGet(st, key, fault)
  IN IF r.kind = "throw" THEN [kind |-> "undefined"] ELSE r

\* collab.js env.COLLAB_KV.get: a failed store call throws into the handler
kvGet(st, key, fault) == StoreGet(st, key, fault)

\* Mutant: a put that fails has already written the value.
edgeKVPut_partial(st, key, value, fault) ==
  [ok |-> fault # "put", store |-> SetKey(st, key, value)]

\* edgeKVPut / env.COLLAB_KV.put: writes, or throws and writes nothing; the
\* handlers keep whatever the store holds after the call
edgeKVPut(st, key, value, fault) ==
  IF fault = "put" THEN [ok |-> FALSE, store |-> st]
  ELSE [ok |-> TRUE, store |-> SetKey(st, key, value)]

\* edgeKVDelete / env.COLLAB_KV.delete: a failure is swallowed by the caller
edgeKVDelete(st, key, fault) ==
  IF fault = "delete" THEN st ELSE RemoveKey(st, key)

\* ---------------------------------------------------------- create_room
\* Mutant: the snapshot is not among the required fields.
handleCreateRoom_branch_lenient(st, t, req) ==
  IF ~req.hasBody THEN Reply(st, 400, [error |-> "EmptyBody"])
  ELSE IF \/ Falsy(req.roomId) \/ req.roomData = NoRoomData
          \/ Falsy(req.userId)
  THEN Reply(st, 400, [error |-> "MissingField"])
  ELSE
    LET room == [name |-> req.roomData.name,
                 activeUsers |-> req.roomData.activeUsers,
                 snapshot |-> req.snapshot,
                 userBranches |->
                   (req.userId :> [snapshot |-> req.snapshot,
                                   userName |-> req.userName]),
                 operations |-> << >>]
        w == edgeKVPut(st, RoomKey(req.roomId), room, req.fault)
    IN IF w.ok
       THEN Reply(w.store, 200, [success |-> TRUE, roomId |-> req.roomId])
       ELSE Reply(w.store, 500, [error |-> "StoreError"])

handleCreateRoom_branch(st, t, req) ==
  IF ~req.hasBody THEN Reply(st, 400, [error |-> "EmptyBody"])
  ELSE IF \/ Falsy(req.roomId) \/ req.roomData = NoRoomData
          \/ Falsy(req.userId) \/ Falsy(req.snapshot)
  THEN Reply(st, 400, [error |-> "MissingField"])
  ELSE
    LET room == [name |-> req.roomData.name,
                 activeUsers |-> req.roomData.activeUsers,
                 snapshot |-> req.snapshot,
                 userBranches |->
                   (req.userId :> [snapshot |-> req.snapshot,
                                   userName |-> req.userName]),
                 operations |-> << >>]
        w == edgeKVPut(st, RoomKey(req.roomId), room, req.fault)
    IN IF w.ok
       THEN Reply(w.store, 200, [success |-> TRUE, roomId |-> req.roomId])
       ELSE Reply(w.store, 500, [error |-> "StoreError"])

handleCreateRoom_kv(st, t, req) ==
  IF ~req.hasBody THEN Reply(st, 400, [error |-> "EmptyBody"])
  ELSE IF \/ Falsy(req.roomId) \/ req.roomData = NoRoomData
          \/ Falsy(req.userId)
  THEN Reply(st, 400, [error |-> "MissingField"])
  ELSE
    LET room == [name |-> req.roomData.name,
                 activeUsers |-> req.roomData.activeUsers,
                 snapshot |-> IF Falsy(req.snapshot) THEN EmptyObject
                              ELSE req.snapshot,
                 userBranches |-> << >>,
                 operations |-> << >>]
        w == edgeKVPut(st, RoomKey(req.roomId), room, req.fault)
    IN IF w.ok
       THEN Reply(w.store, 200, [success |-> TRUE, roomId |-> req.roomId])
       ELSE Reply(w.store, 500, [error |-> "StoreError"])

\* ------------------------------------------------------------ join_room
\* The activeUsers update shared by both variants.
JoinActiveUsers(activeUsers, t, req) ==
  IF FindIndex(activeUsers, req.userId) = -1
  THEN Append(activeUsers,
              IF req.userData # NoUserData THEN req.userData
              ELSE [id |-> req.userId, joinedAt |-> t, isHost |-> FALSE])
  ELSE activeUsers

JoinBody(room, hostSnapshot) ==
  [success |-> TRUE, activeUsers |-> room.activeUsers, snapshot |-> hostSnapshot]

handleJoinRoom_branch(st, t, req) ==
  IF ~req.hasBody THEN Reply(st, 400, [error |-> "EmptyBody"])
  ELSE IF Falsy(req.roomId) \/ Falsy(req.userId)
  THEN Reply(st, 400, [error |-> "MissingField"])
  ELSE
    LET g == edgeKVGet(st, RoomKey(req.roomId), req.fault)
    IN IF g.kind = "undefined" THEN Reply(st, 404, [error |-> "NotFound"])
       ELSE
         IF FindThrows(g.value.activeUsers, req.userId)
         THEN Reply(st, 500, [error |-> "InternalError"])
         ELSE
         LET room == g.value
             hostSnapshot == room.snapshot
             branch == [snapshot |-> hostSnapshot,
                        userName |-> IF Falsy(req.userName)
                                     THEN DefaultName(req.userId)
                                     ELSE req.userName]
             room1 == [room EXCEPT
                        !.userBranches = SetKey(@, req.userId, branch),
                        !.activeUsers = JoinActiveUsers(@, t, req)]
             w == edgeKVPut(st, RoomKey(req.roomId), room1, req.fault)
         IN IF w.ok
            THEN Reply(w.store, 200,
                       JoinBody(room1, hostSnapshot) @@ [userBranch |-> branch])
            ELSE Reply(w.store, 500, [error |-> "StoreError"])

handleJoinRoom_kv(st, t, req) ==
  IF ~req.hasBody THEN Reply(st, 400, [error |-> "EmptyBody"])
  ELSE IF Falsy(req.roomId) \/ Falsy(req.userId)
  THEN Reply(st, 400, [error |-> "MissingField"])
  ELSE
    LET g == kvGet(st, RoomKey(req.roomId), req.fault)
    IN IF g.kind = "throw" THEN Reply(st, 500, [error |-> "StoreError"])
       ELSE IF g.kind = "undefined" THEN Reply(st, 404, [error |-> "NotFound"])
       ELSE
         IF FindThrows(g.value.activeUsers, req.userId)
         THEN Reply(st, 500, [error |-> "InternalError"])
         ELSE
         LET room == g.value
             room1 == [room EXCEPT
                        !.activeUsers = JoinActiveUsers(@, t, req)]
             w == edgeKVPut(st, RoomKey(req.roomId), room1, req.fault)
         IN IF w.ok
            THEN Reply(w.store, 200, JoinBody(room1, room.snapshot))
            ELSE Reply(w.store, 500, [error |-> "StoreError"])

\* ----------------------------------------------------------- leave_room
\* Mutant: the leaving user's branch is deleted as well.
LeaveLoaded_dropsBranch(st, t, req, room) ==
  IF FilterThrows(room.activeUsers)
  THEN Reply(st, 500, [error |-> "InternalError"])
  ELSE
  LET room1 == [room EXCEPT
                 !.activeUsers = FilterOut(@, req.userId),
                 !.userBranches = RemoveKey(@, req.userId)]
  IN IF Len(room1.activeUsers) = 0
     THEN Reply(edgeKVDelete(st, RoomKey(req.roomId), req.fault),
                200, [success |-> TRUE])
     ELSE Reply(edgeKVPut(st, RoomKey(req.roomId), room1, req.fault).store,
                200, [success |-> TRUE])

\* Both variants run the same steps; only the store read differs. The filter
\* runs outside every try block of the handler, so its TypeError reaches the
\* catch of fetch, which answers 500.
LeaveLoaded(st, t, req, room) ==
  IF FilterThrows(room.activeUsers)
  THEN Reply(st, 500, [error |-> "InternalError"])
  ELSE
  LET room1 == [room EXCEPT
                 !.activeUsers = FilterOut(@, req.userId)]
  IN IF Len(room1.activeUsers) = 0
     THEN Reply(edgeKVDelete(st, RoomKey(req.roomId), req.fault),
                200, [success |-> TRUE])
     ELSE Reply(edgeKVPut(st, RoomKey(req.roomId), room1, req.fault).store,
                200, [success |-> TRUE])

handleLeaveRoom_branch(st, t, req) ==
  IF ~req.hasBody THEN Reply(st, 200, [success |-> TRUE])
  ELSE IF Falsy(req.roomId) \/ Falsy(req.userId)
  THEN Reply(st, 200, [success |-> TRUE])
  ELSE
    LET g == edgeKVGet(st, RoomKey(req.roomId), req.fault)
    IN IF g.kind = "undefined" THEN Reply(st, 200, [success |-> TRUE])
       ELSE LeaveLoaded(st, t, req, g.value)

handleLeaveRoom_kv(st, t, req) ==
  IF ~req.hasBody THEN Reply(st, 200, [success |-> TRUE])
  ELSE IF Falsy(req.roomId) \/ Falsy(req.userId)
  THEN Reply(st, 200, [success |-> TRUE])
  ELSE
    LET g == kvGet(st, RoomKey(req.roomId), req.fault)
    IN IF g.kind # "value" THEN Reply(st, 200, [success |-> TRUE])
       ELSE LeaveLoaded(st, t, req, g.value)

\* ------------------------------------- update_user_branch / send_operation
NoOperation == [absent |-> TRUE]

Operations == {[type |-> p] : p \in Payloads}

\* The fields the engine sets on a stored operation (the random suffix of the
\* id is left out).
EngineFields(t, userId) ==
  [timestamp |-> t, userId |-> userId, id |-> "op_" \o ToString(t)]

\* Mutant: the payload is spread last, { timestamp, userId, id, ...operation }.
NewOperation_payloadLast(operation, t, userId) ==
  operation @@ EngineFields(t, userId)

\* { ...operation, timestamp: Date.now(), userId, id: `op_${Date.now()}_...` }:
\* the fields of the payload, each overridden by the engine's field of the
\* same name
NewOperation(operation, t, userId) ==
  EngineFields(t, userId) @@ operation

\* Mutant: the log is never trimmed.
PushOperation_noTrim(operations, op) == Append(operations, op)

\* Mutant: the trim keeps the oldest entries (slice(0, 50)).
PushOperation_keepOldest(operations, op) ==
  LET pushed == Append(operations, op)
  IN IF Len(pushed) > MaxOperations
     THEN SubSeq(pushed, 1, KeepOperations)
     ELSE pushed

\* operations.push(op); if (operations.length > 100) operations.slice(-50)
PushOperation(operations, op) ==
  LET pushed == Append(operations, op)
  IN IF Len(pushed) > MaxOperations
     THEN SliceLast(pushed, KeepOperations)
     ELSE pushed

\* Mutant: one snapshot shared by all branches.
UpdateBranch_shared(userBranches, t, req) ==
  [u \in (DOMAIN userBranches) \cup {req.userId} |->
     [snapshot |-> req.snapshot,
      userName |-> IF u \in DOMAIN userBranches /\ ~Falsy(userBranches[u].userName)
                   THEN userBranches[u].userName
                   ELSE DefaultName(u)]]

\* userBranches[userId] = { snapshot, lastUpdated, userName: old?.userName || default }
UpdateBranch(userBranches, t, req) ==
  SetKey(userBranches, req.userId,
         [snapshot |-> req.snapshot,
          userName |->
            IF req.userId \in DOMAIN userBranches
               /\ ~Falsy(userBranches[req.userId].userName)
            THEN userBranches[req.userId].userName
            ELSE DefaultName(req.userId)])

\* Mutant: the supplied snapshot also replaces the host snapshot.
handleUpdateUserBranch_hostToo(st, t, req) ==
  IF ~req.hasBody THEN Reply(st, 400, [error |-> "EmptyBody"])
  ELSE IF Falsy(req.roomId) \/ Falsy(req.userId) \/ Falsy(req.snapshot)
  THEN Reply(st, 400, [error |-> "MissingField"])
  ELSE
    LET g == edgeKVGet(st, RoomKey(req.roomId), req.fault)
    IN IF g.kind = "undefined" THEN Reply(st, 404, [error |-> "NotFound"])
       ELSE
         LET room == g.value
             room1 == [room EXCEPT
                        !.snapshot = req.snapshot,
                        !.userBranches = UpdateBranch(@, t, req),
                        !.operations =
                          IF req.operation # NoOperation
                          THEN PushOperation(@,
                                 NewOperation(req.operation, t, req.userId))
                          ELSE @]
             w == edgeKVPut(st, RoomKey(req.roomId), room1, req.fault)
         IN IF w.ok THEN Reply(w.store, 200, [success |-> TRUE])
            ELSE Reply(w.store, 500, [error |-> "StoreError"])

handleUpdateUserBranch(st, t, req) ==
  IF ~req.hasBody THEN Reply(st, 400, [error |-> "EmptyBody"])
  ELSE IF Falsy(req.roomId) \/ Falsy(req.userId) \/ Falsy(req.snapshot)
  THEN Reply(st, 400, [error |-> "MissingField"])
  ELSE
    LET g == edgeKVGet(st, RoomKey(req.roomId), req.fault)
    IN IF g.kind = "undefined" THEN Reply(st, 404, [error |-> "NotFound"])
       ELSE
         LET room == g.value
             room1 == [room EXCEPT
                        !.userBranches = UpdateBranch(@, t, req),
                        !.operations =
                          IF req.operation # NoOperation
                          THEN PushOperation(@,
                                 NewOperation(req.operation, t, req.userId))
                          ELSE @]
             w == edgeKVPut(st, RoomKey(req.roomId), room1, req.fault)
         IN IF w.ok THEN Reply(w.store, 200, [success |-> TRUE])
            ELSE Reply(w.store, 500, [error |-> "StoreError"])

\* Mutant: the new operation is put in front of the log (unshift).
handleSendOperation_unshift(st, t, req) ==
  IF ~req.hasBody THEN Reply(st, 400, [error |-> "EmptyBody"])
  ELSE IF Falsy(req.roomId) \/ Falsy(req.userId) \/ req.operation = NoOperation
  THEN Reply(st, 400, [error |-> "MissingField"])
  ELSE
    LET g == kvGet(st, RoomKey(req.roomId), req.fault)
    IN IF g.kind = "throw" THEN Reply(st, 500, [error |-> "StoreError"])
       ELSE IF g.kind = "undefined" THEN Reply(st, 404, [error |-> "NotFound"])
       ELSE
         LET room == g.value
             room1 == [room EXCEPT
                        !.operations =
                          <<NewOperation(req.operation, t, req.userId)>>
                            \o @]
             w == edgeKVPut(st, RoomKey(req.roomId), room1, req.fault)
         IN IF w.ok THEN Reply(w.store, 200, [success |-> TRUE])
            ELSE Reply(w.store, 500, [error |-> "StoreError"])

handleSendOperation(st, t, req) ==
  IF ~req.hasBody THEN Reply(st, 400, [error |-> "EmptyBody"])
  ELSE IF Falsy(req.roomId) \/ Falsy(req.userId) \/ req.operation = NoOperation
  THEN Reply(st, 400, [error |-> "MissingField"])
  ELSE
    LET g == kvGet(st, RoomKey(req.roomId), req.fault)
    IN IF g.kind = "throw" THEN Reply(st, 500, [error |-> "StoreError"])
       ELSE IF g.kind = "undefined" THEN Reply(st, 404, [error |-> "NotFound"])
       ELSE
         LET room == g.value
             room1 == [room EXCEPT
                        !.operations =
                          PushOperation(@,
                            NewOperation(req.operation, t, req.userId))]
             w == edgeKVPut(st, RoomKey(req.roomId), room1, req.fault)
         IN IF w.ok THEN Reply(w.store, 200, [success |-> TRUE])
            ELSE Reply(w.store, 500, [error |-> "StoreError"])

\* ---------------------------------------------------------- get_updates
\* parseInt(url.searchParams.get('lastSync') || '0'): a decimal string gives
\* its number, a missing parameter 0, any other text NaN.
ParseLastSync(text) ==
  IF text = Absent THEN [nan |-> FALSE, val |-> 0]
  ELSE IF \E n \in 0..(MaxClock + 1) : ToString(n) = text
  THEN [nan |-> FALSE,
        val |-> CHOOSE n \in 0..(MaxClock + 1) : ToString(n) = text]
  ELSE [nan |-> TRUE, val |-> 0]

\* Mutant: timestamp >= lastSync.
IsUpdateFor_inclusive(op, lastSync, userId) ==
  /\ ~lastSync.nan
  /\ op.timestamp >= lastSync.val
  /\ op.userId # userId

\* op.timestamp > lastSync && op.userId !== userId   (x > NaN is false)
IsUpdateFor(op, lastSync, userId) ==
  /\ ~lastSync.nan
  /\ op.timestamp > lastSync.val
  /\ op.userId # userId

\* Mutant: the filter forgets lastSync.
FilterUpdates_all(operations, lastSync, userId) ==
  SelectSeq(operations, LAMBDA op : op.userId # userId)

FilterUpdates(operations, lastSync, userId) ==
  SelectSeq(operations, LAMBDA op : IsUpdateFor(op, lastSync, userId))

\* Object.keys(snapshot.nodeMap || {}).length of the snapshots used here
NodeCount(snapshot) ==
  CASE snapshot = "S1" -> 1
    [] snapshot = "S2" -> 2
    [] OTHER -> 0

BranchSummary(userBranches, keys) ==
  [u \in keys |-> [userName |-> userBranches[u].userName,
                   nodeCount |-> NodeCount(userBranches[u].snapshot)]]

UpdatesError(t, tag) == [error |-> tag, users |-> << >>, lastSync |-> t]

handleGetUpdates_branch(st, t, req) ==
  IF Falsy(req.roomId) \/ Falsy(req.userId)
  THEN Reply(st, 400, UpdatesError(t, "MissingField"))
  ELSE
    LET g == edgeKVGet(st, RoomKey(req.roomId), req.fault)
    IN IF g.kind = "undefined" THEN Reply(st, 404, UpdatesError(t, "NotFound"))
       ELSE
         LET room == g.value
         IN Reply(st, 200,
              [success |-> TRUE,
               updates |-> FilterUpdates(room.operations,
                             ParseLastSync(req.lastSync), req.userId),
               userBranches |->
                 BranchSummary(room.userBranches,
                               (DOMAIN room.userBranches) \ {req.userId}),
               users |-> room.activeUsers,
               lastSync |-> t])

handleGetUpdates_kv(st, t, req) ==
  IF Falsy(req.roomId) \/ Falsy(req.userId)
  THEN Reply(st, 400, UpdatesError(t, "MissingField"))
  ELSE
    LET g == kvGet(st, RoomKey(req.roomId), req.fault)
    IN IF g.kind = "throw" THEN Reply(st, 500, UpdatesError(t, "StoreError"))
       ELSE IF g.kind = "undefined"
       THEN Reply(st, 404, UpdatesError(t, "NotFound"))
       ELSE
         LET room == g.value
         IN Reply(st, 200,
              [success |-> TRUE,
               updates |-> FilterUpdates(room.operations,
                             ParseLastSync(req.lastSync), req.userId),
               users |-> room.activeUsers,
               lastSync |-> t])

\* -------------------------------------------------------- get_room_info
handleGetRoomInfo_branch(st, t, req) ==
  IF Falsy(req.roomId) THEN Reply(st, 400, [error |-> "MissingField"])
  ELSE
    LET g == edgeKVGet(st, RoomKey(req.roomId), req.fault)
    IN IF g.kind = "undefined" THEN Reply(st, 404, [error |-> "NotFound"])
       ELSE
         LET room == g.value
         IN Reply(st, 200,
              [success |-> TRUE,
               name |-> room.name,
               activeUsers |-> room.activeUsers,
               userBranches |->
                 BranchSummary(room.userBranches, DOMAIN room.userBranches),
               snapshot |-> room.snapshot])

\* Mutant: the answer carries the default snapshot.
handleGetRoomInfo_kv_default(st, t, req) ==
  IF Falsy(req.roomId) THEN Reply(st, 400, [error |-> "MissingField"])
  ELSE
    LET g == kvGet(st, RoomKey(req.roomId), req.fault)
    IN IF g.kind = "throw" THEN Reply(st, 500, [error |-> "StoreError"])
       ELSE IF g.kind = "undefined" THEN Reply(st, 404, [error |-> "NotFound"])
       ELSE
         LET room == g.value
         IN Reply(st, 200,
              [success |-> TRUE,
               name |-> room.name,
               activeUsers |-> room.activeUsers,
               snapshot |-> EmptyObject])

handleGetRoomInfo_kv(st, t, req) ==
  IF Falsy(req.roomId) THEN Reply(st, 400, [error |-> "MissingField"])
  ELSE
    LET g == kvGet(st, RoomKey(req.roomId), req.fault)
    IN IF g.kind = "throw" THEN Reply(st, 500, [error |-> "StoreError"])
       ELSE IF g.kind = "undefined" THEN Reply(st, 404, [error |-> "NotFound"])
       ELSE
         LET room == g.value
         IN Reply(st, 200,
              [success |-> TRUE,
               name |-> room.name,
               activeUsers |-> room.activeUsers,
               snapshot |-> room.snapshot])

\* ------------------------------------------------------------ requests
OrAbsent(S) == S \cup {Absent}

\* A POST whose body is null.
NoBody ==
  [hasBody |-> FALSE, roomId |-> Absent, userId |-> Absent, fault |-> "none"]

\* Each request set holds every well-formed request over the input sets and,
\* for each required field, the requests that leave that one field out of a
\* sample well-formed request.
Without(reqs, fields) ==
  {[req EXCEPT ![f] = Absent] : req \in reqs, f \in fields}

SampleRoomData ==
  [name |-> "map",
   activeUsers |-> <<[id |-> "u1", joinedAt |-> 0, isHost |-> TRUE]>>]

CreateValid ==
  [hasBody : {TRUE}, roomId : RoomIds, roomData : RoomDatas,
   snapshot : Snapshots, userId : Users, userName : OrAbsent(UserNames),
   fault : {"none", "put"}]

CreateSample ==
  {req \in CreateValid : /\ req.roomData = SampleRoomData
                         /\ req.snapshot = "S1"
                         /\ req.userId = "u1"
                         /\ req.userName = Absent}

CreateRequests ==
  CreateValid \cup {NoBody}
    \cup Without(CreateSample, {"roomId", "snapshot", "userId"})
    \cup {[req EXCEPT !.roomData = NoRoomData] : req \in CreateSample}

JoinValid ==
  [hasBody : {TRUE}, roomId : RoomIds, userId : Users, userName : {Absent},
   userData : UserDatas \cup {NoUserData}, fault : {"none", "get", "put"}]

JoinSample ==
  {req \in JoinValid : /\ req.userId = "u2"
                       /\ req.userData = NoUserData
                       /\ req.fault = "none"}

JoinRequests ==
  JoinValid \cup {NoBody} \cup Without(JoinSample, {"roomId", "userId"})

LeaveValid == [hasBody : {TRUE}, roomId : RoomIds, userId : Users, fault : Faults]

LeaveSample == {req \in LeaveValid : req.userId = "u2" /\ req.fault = "none"}

LeaveRequests ==
  LeaveValid \cup {NoBody} \cup Without(LeaveSample, {"roomId", "userId"})

\* update_user_branch / send_operation requests carrying the given operations
UpdateValid(ops) ==
  [hasBody : {TRUE}, roomId : RoomIds, userId : Users, snapshot : Snapshots,
   operation : ops, fault : {"none", "get", "put"}]

UpdateSample(ops) ==
  {req \in UpdateValid(ops) : /\ req.userId = "u2"
                              /\ req.snapshot = "S1"
                              /\ req.fault = "none"}

\* Branch writes without an operation payload, and operation-less
\* send_operation requests.
UpdateRequests ==
  UpdateValid({NoOperation}) \cup {NoBody}
    \cup Without(UpdateSample({NoOperation}), {"roomId", "userId", "snapshot"})

LastSyncTexts == {ToString(n) : n \in 0..MaxClock} \cup {Absent, "abc"}

GetUpdatesValid(texts) ==
  [roomId : RoomIds, userId : Users, lastSync : texts, fault : {"none", "get"}]

GetUpdatesRequestsWith(texts) ==
  GetUpdatesValid(texts)
    \cup Without({req \in GetUpdatesValid({Absent}) :
                    req.userId = "u2" /\ req.fault = "none"},
                 {"roomId", "userId"})

GetUpdatesRequests == GetUpdatesRequestsWith({Absent})

GetRoomInfoRequests ==
  [roomId : OrAbsent(RoomIds), userId : {Absent}, fault : {"none", "get"}]

\* --------------------------------------------------------------- actions
\* switch (action) of fetch: the handler of the deployed variant
Handle(op, st, t, req) ==
  CASE op = "create_room" ->
         IF variant = "branch" THEN handleCreateRoom_branch(st, t, req)
         ELSE handleCreateRoom_kv(st, t, req)
    [] op = "join_room" ->
         IF variant = "branch" THEN handleJoinRoom_branch(st, t, req)
         ELSE handleJoinRoom_kv(st, t, req)
    [] op = "leave_room" ->
         IF variant = "branch" THEN handleLeaveRoom_branch(st, t, req)
         ELSE handleLeaveRoom_kv(st, t, req)
    [] op = "update_user_branch" -> handleUpdateUserBranch(st, t, req)
    [] op = "send_operation" -> handleSendOperation(st, t, req)
    [] op = "get_updates" ->
         IF variant = "branch" THEN handleGetUpdates_branch(st, t, req)
         ELSE handleGetUpdates_kv(st, t, req)
    [] op = "get_room_info" ->
         IF variant = "branch" THEN handleGetRoomInfo_branch(st, t, req)
         ELSE handleGetRoomInfo_kv(st, t, req)

Exists(st, roomId) == RoomKey(roomId) \in DOMAIN st

RoomOf(st, roomId) == st[RoomKey(roomId)]

\* The request just served and the response it got; existed tells whether
\* the room key was in the store when the request arrived, arg is the
\* lastSync text of a get_updates request, and for a create_room request its
\* snapshot and whether it carried roomData, and for an update_user_branch
\* request its snapshot and whether it carried an operation.
Served(op, req, out, existed, arg) ==
  [op |-> op, roomId |-> req.roomId, userId |-> req.userId,
   status |-> out.status, body |-> out.body, existed |-> existed,
   arg |-> arg]

\* One whole request: load, mutate, save, respond.
Serve(op, req, arg) ==
  LET out == Handle(op, store, clock, req)
  IN /\ store' = out.store
     /\ last' = Served(op, req, out, Exists(store, req.roomId), arg)
     /\ UNCHANGED <<variant, clock, inFlight, client>>

CreateRoom(req) ==
  /\ Serve("create_room", req,
           [snapshot |-> IF req.hasBody THEN req.snapshot ELSE Absent,
            hasBody |-> req.hasBody,
            hasRoomData |-> req.hasBody /\ req.roomData # NoRoomData])
  /\ joined' = IF last'.status = 200
               THEN [joined EXCEPT ![req.roomId] = {}]
               ELSE joined

JoinRoom(req) ==
  /\ Exists(store, req.roomId)
       => Len(RoomOf(store, req.roomId).activeUsers) < MaxActive
  /\ Serve("join_room", req, Absent)
  /\ joined' = IF last'.status = 200
               THEN [joined EXCEPT ![req.roomId] = @ \cup {req.userId}]
               ELSE joined

LeaveRoom(req) ==
  /\ Serve("leave_room", req, Absent)
  /\ joined' = [r \in RoomIds |-> IF Exists(store', r) THEN joined[r] ELSE {}]

UpdateArg(req) ==
  [snapshot |-> IF req.hasBody THEN req.snapshot ELSE Absent,
   hasOperation |-> req.hasBody /\ req.operation # NoOperation]

UpdateUserBranch(req) ==
  /\ variant = "branch"
  /\ Serve("update_user_branch", req, UpdateArg(req))
  /\ UNCHANGED joined

SendOperation(req) ==
  /\ variant = "kv"
  /\ Serve("send_operation", req, Absent)
  /\ UNCHANGED joined

GetUpdates(req) ==
  /\ Serve("get_updates", req, req.lastSync)
  /\ UNCHANGED joined

GetRoomInfo(req) ==
  /\ Serve("get_room_info", req, Absent)
  /\ UNCHANGED joined

\* Time passes between requests.
Tick ==
  /\ clock < MaxClock
  /\ clock' = clock + 1
  /\ UNCHANGED <<variant, store, last, joined, inFlight, client>>

\* A user with no request in flight. A request in flight holds the document
\* the store returned to its read (snap) and, once the handler has run on it,
\* the response and the document to write (out).
Idle == [pc |-> "idle"]

\* What a client remembers between its requests: the lastSync its previous
\* get_updates poll returned (0 before the first poll), the operations its
\* polls have returned, the snapshot of its last successful branch write, and
\* whether a leave_room of its own has been answered.
NewClient ==
  [lastSync |-> 0, delivered |-> {}, wrote |-> Absent, left |-> FALSE]

NoRequest ==
  [op |-> "none", roomId |-> Absent, userId |-> Absent, status |-> 0,
   body |-> << >>, existed |-> FALSE, arg |-> Absent]

\* ---------------------------------------------- Spec: the room life cycle
\* Any sequence of whole requests against an initially empty store, all served
\* at one instant; branch writes carry no operation payload here (time and the
\* operation log are the subject of SpecLog and SpecTrunc).
Init ==
  /\ variant \in Variants
  /\ store = << >>
  /\ clock = 1
  /\ last = NoRequest
  /\ joined = [r \in RoomIds |-> {}]
  /\ scenarioStep = 0
  /\ inFlight = [u \in Users |-> Idle]
  /\ client = [u \in Users |-> NewClient]

Next ==
  \/ \E req \in CreateRequests : CreateRoom(req) /\ UNCHANGED scenarioStep
  \/ \E req \in JoinRequests : JoinRoom(req) /\ UNCHANGED scenarioStep
  \/ \E req \in LeaveRequests : LeaveRoom(req) /\ UNCHANGED scenarioStep
  \/ \E req \in UpdateRequests : UpdateUserBranch(req) /\ UNCHANGED scenarioStep
  \/ \E req \in UpdateRequests : SendOperation(req) /\ UNCHANGED scenarioStep
  \/ \E req \in GetUpdatesRequests : GetUpdates(req) /\ UNCHANGED scenarioStep
  \/ \E req \in GetRoomInfoRequests : GetRoomInfo(req) /\ UNCHANGED scenarioStep

Spec == Init /\ [][Next]_vars

\* ------------------------------- SpecScenario: the four-request scenario
\* create_room(r1, u1), join_room(r1, u2), leave_room(r1, u1),
\* leave_room(r1, u2), one after the other, with a store that never fails.
ScenarioCreate ==
  /\ scenarioStep = 0
  /\ \E req \in CreateValid :
       /\ req.roomId = "r1" /\ req.userId = "u1" /\ req.fault = "none"
       /\ CreateRoom(req)
  /\ scenarioStep' = 1

ScenarioJoin ==
  /\ scenarioStep = 1
  /\ \E req \in JoinValid :
       /\ req.roomId = "r1" /\ req.userId = "u2" /\ req.fault = "none"
       /\ JoinRoom(req)
  /\ scenarioStep' = 2

ScenarioLeaveHost ==
  /\ scenarioStep = 2
  /\ \E req \in LeaveValid :
       /\ req.roomId = "r1" /\ req.userId = "u1" /\ req.fault = "none"
       /\ LeaveRoom(req)
  /\ scenarioStep' = 3

ScenarioLeaveGuest ==
  /\ scenarioStep = 3
  /\ \E req \in LeaveValid :
       /\ req.roomId = "r1" /\ req.userId = "u2" /\ req.fault = "none"
       /\ LeaveRoom(req)
  /\ scenarioStep' = 4

NextScenario ==
  \/ ScenarioCreate
  \/ ScenarioJoin
  \/ ScenarioLeaveHost
  \/ ScenarioLeaveGuest

SpecScenario == Init /\ [][NextScenario]_vars

\* ------------------------------------------ SpecLog: the operation log
\* A room created by u1 and joined by u2, then operations appended by both
\* users while time passes, get_updates polls with every lastSync, and
\* create_room issued again for the same roomId.
SampleCreate ==
  [hasBody |-> TRUE, roomId |-> "r1", roomData |-> SampleRoomData,
   snapshot |-> "S1", userId |-> "u1", userName |-> Absent, fault |-> "none"]

SampleJoin ==
  [hasBody |-> TRUE, roomId |-> "r1", userId |-> "u2", userName |-> Absent,
   userData |-> NoUserData, fault |-> "none"]

SeededStore ==
  Handle("join_room",
         Handle("create_room", << >>, 1, SampleCreate).store, 1,
         SampleJoin).store

InitLog ==
  /\ variant \in Variants
  /\ store = SeededStore
  /\ clock = 1
  /\ last = NoRequest
  /\ joined = [r \in RoomIds |-> {"u2"}]
  /\ scenarioStep = 0
  /\ inFlight = [u \in Users |-> Idle]
  /\ client = [u \in Users |-> NewClient]

LogRequests ==
  {req \in UpdateValid(Operations) : req.snapshot = "S1" /\ req.fault = "none"}

\* Branch writes with and without an operation payload.
LogBranchRequests ==
  {req \in UpdateValid(Operations \cup {NoOperation}) : req.fault = "none"}

LogCreateRequests ==
  {req \in CreateValid : /\ req.roomData = SampleRoomData
                         /\ req.userId = "u1"
                         /\ req.userName = Absent}

LogHasRoom(req) ==
  /\ Exists(store, req.roomId)
  /\ Len(RoomOf(store, req.roomId).operations) < MaxLog

NextLog ==
  \/ \E req \in LogBranchRequests :
       LogHasRoom(req) /\ UpdateUserBranch(req) /\ UNCHANGED scenarioStep
  \/ \E req \in LogRequests :
       LogHasRoom(req) /\ SendOperation(req) /\ UNCHANGED scenarioStep
  \/ \E req \in GetUpdatesRequestsWith(LastSyncTexts) :
       GetUpdates(req) /\ UNCHANGED scenarioStep
  \/ \E req \in LogCreateRequests : CreateRoom(req) /\ UNCHANGED scenarioStep
  \/ Tick /\ UNCHANGED scenarioStep

SpecLog == InitLog /\ [][NextLog]_vars

\* ---------------------------------------- SpecTrunc: a long operation log
\* One operation per millisecond appended to the room of SpecLog, long
\* enough for the log to pass MaxOperations entries.
TruncRequests == {req \in LogRequests : req.userId = "u1"}

LastStamp(operations) ==
  IF Len(operations) = 0 THEN 0 ELSE operations[Len(operations)].timestamp

TruncAppend(req) ==
  /\ LastStamp(RoomOf(store, req.roomId).operations) < clock
  /\ UpdateUserBranch(req) \/ SendOperation(req)
  /\ UNCHANGED scenarioStep

LongTick ==
  /\ LastStamp(RoomOf(store, "r1").operations) = clock
  /\ clock < MaxLongClock
  /\ clock' = clock + 1
  /\ UNCHANGED <<variant, store, last, joined, scenarioStep, inFlight, client>>

NextTrunc ==
  \/ \E req \in TruncRequests : TruncAppend(req)
  \/ LongTick

SpecTrunc == InitLog /\ [][NextTrunc]_vars

\* ------------------------------------- SpecPoll: overlapping requests
\* The room of SpecLog with requests that overlap. Every handler awaits the
\* store twice, so a write request takes three steps: the store serves its
\* read (load), the handler runs on the document it got, stamping the
\* operation with Date.now() (stamp), and the store serves its put of the
\* whole document (save). A get_updates poll takes two: the store serves its
\* read (load), and the handler filters what it got and stamps lastSync with
\* Date.now() (reply). Each client has one request in flight at a time and
\* passes to each poll the lastSync its previous poll returned.
WriteOp == IF variant = "branch" THEN "update_user_branch" ELSE "send_operation"

PollWriteRequests ==
  {req \in UpdateValid(Operations) : req.snapshot = "S2" /\ req.fault = "none"}

PollRequest(p) ==
  [roomId |-> "r1", userId |-> p, lastSync |-> ToString(client[p].lastSync),
   fault |-> "none"]

WriteLoad(req) ==
  /\ inFlight[req.userId] = Idle
  /\ Exists(store, req.roomId)
       => Len(RoomOf(store, req.roomId).operations) < MaxPollLog
  /\ inFlight' = [inFlight EXCEPT ![req.userId] =
                    [pc |-> "loaded", op |-> WriteOp, req |-> req,
                     snap |-> store]]
  /\ UNCHANGED <<variant, store, clock, last, joined, scenarioStep, client>>

WriteStamp(u) ==
  /\ inFlight[u].pc = "loaded"
  /\ inFlight[u].op # "get_updates"
  /\ inFlight' = [inFlight EXCEPT ![u] =
                    [pc |-> "stamped", op |-> @.op, req |-> @.req,
                     snap |-> @.snap,
                     out |-> Handle(@.op, @.snap, clock, @.req)]]
  /\ UNCHANGED <<variant, store, clock, last, joined, scenarioStep, client>>

WriteSave(u) ==
  /\ inFlight[u].pc = "stamped"
  /\ LET f == inFlight[u]
         key == RoomKey(f.req.roomId)
     IN /\ store' = IF f.out.status = 200
                    THEN edgeKVPut(store, key, f.out.store[key], "none").store
                    ELSE store
        /\ last' = Served(f.op, f.req, f.out, Exists(f.snap, f.req.roomId),
                          IF f.op = "update_user_branch"
                          THEN UpdateArg(f.req) ELSE Absent)
        /\ client' = [client EXCEPT ![u].wrote =
                        IF f.op = "update_user_branch" /\ f.out.status = 200
                        THEN f.req.snapshot ELSE @]
  /\ inFlight' = [inFlight EXCEPT ![u] = Idle]
  /\ UNCHANGED <<variant, clock, joined, scenarioStep>>

PollLoad(p) ==
  /\ inFlight[p] = Idle
  /\ inFlight' = [inFlight EXCEPT ![p] =
                    [pc |-> "loaded", op |-> "get_updates",
                     req |-> PollRequest(p), snap |-> store]]
  /\ UNCHANGED <<variant, store, clock, last, joined, scenarioStep, client>>

PollReply(p) ==
  /\ inFlight[p].pc = "loaded"
  /\ inFlight[p].op = "get_updates"
  /\ LET f == inFlight[p]
         out == Handle("get_updates", f.snap, clock, f.req)
     IN /\ last' = Served("get_updates", f.req, out,
                          Exists(f.snap, f.req.roomId), f.req.lastSync)
        /\ client' = [client EXCEPT
                        ![p].lastSync = out.body.lastSync,
                        ![p].delivered =
                          @ \cup {out.body.updates[i] :
                                    i \in 1..Len(out.body.updates)}]
  /\ inFlight' = [inFlight EXCEPT ![p] = Idle]
  /\ UNCHANGED <<variant, store, clock, joined, scenarioStep>>

NextPoll ==
  \/ \E req \in PollWriteRequests : WriteLoad(req)
  \/ \E u \in Users : WriteStamp(u)
  \/ \E u \in Users : WriteSave(u)
  \/ \E p \in Users : PollLoad(p)
  \/ \E p \in Users : PollReply(p)
  \/ Tick /\ UNCHANGED scenarioStep

SpecPoll == InitLog /\ [][NextPoll]_vars

\* ------------------------------ SpecShape: rooms with null activeUsers
\* create_room stores the activeUsers array of roomData as it is; here the
\* array may hold a null element, and users then join and leave.
ShapeLists ==
  {<<NullEntry>>,
   <<[id |-> "u1", joinedAt |-> 0, isHost |-> TRUE]>>,
   <<[id |-> "u1", joinedAt |-> 0, isHost |-> TRUE], NullEntry>>}

ShapeCreateRequests ==
  [hasBody : {TRUE}, roomId : RoomIds,
   roomData : {[name |-> "map", activeUsers |-> a] : a \in ShapeLists},
   snapshot : Snapshots, userId : {"u1"}, userName : {Absent},
   fault : {"none"}]

NextShape ==
  \/ \E req \in ShapeCreateRequests : CreateRoom(req) /\ UNCHANGED scenarioStep
  \/ \E req \in JoinRequests : JoinRoom(req) /\ UNCHANGED scenarioStep
  \/ \E req \in LeaveRequests : LeaveRoom(req) /\ UNCHANGED scenarioStep

SpecShape == Init /\ [][NextShape]_vars

\* ------------------------------------ SpecLeave: overlapping leave_room
\* The room of SpecLog, whose activeUsers are u1 and u2, and leave_room
\* requests that overlap; no other request is issued. A leave_room awaits the
\* store twice: the store serves its read (load), then the handler filters
\* the document it got and the store serves its delete or its put of the
\* whole document (save).
LeaveRaceRequests == {req \in LeaveValid : req.fault = "none"}

LeaveLoad(req) ==
  /\ inFlight[req.userId] = Idle
  /\ inFlight' = [inFlight EXCEPT ![req.userId] =
                    [pc |-> "loaded", op |-> "leave_room", req |-> req,
                     snap |-> store]]
  /\ UNCHANGED <<variant, store, clock, last, joined, scenarioStep, client>>

\* The handler runs on the document it read; it wrote nothing when the key
\* was missing, deleted the key when its filtered list is empty, and put its
\* document otherwise.
LeaveSave(u) ==
  /\ inFlight[u].pc = "loaded"
  /\ inFlight[u].op = "leave_room"
  /\ LET f == inFlight[u]
         key == RoomKey(f.req.roomId)
         out == Handle("leave_room", f.snap, clock, f.req)
     IN /\ store' = IF ~Exists(f.snap, f.req.roomId) THEN store
                    ELSE IF Exists(out.store, f.req.roomId)
                    THEN edgeKVPut(store, key, out.store[key], "none").store
                    ELSE edgeKVDelete(store, key, "none")
        /\ last' = Served("leave_room", f.req, out,
                          Exists(f.snap, f.req.roomId), Absent)
  /\ client' = [client EXCEPT ![u].left = TRUE]
  /\ inFlight' = [inFlight EXCEPT ![u] = Idle]
  /\ UNCHANGED <<variant, clock, joined, scenarioStep>>

NextLeave ==
  \/ \E req \in LeaveRaceRequests : LeaveLoad(req)
  \/ \E u \in Users : LeaveSave(u)

SpecLeave == InitLog /\ [][NextLeave]_vars

\* ----------------------------- SpecRace: writes that overlap a leave_room
\* The room of SpecLog with whole leave_room and create_room requests, and
\* join_room and update_user_branch / send_operation requests that overlap
\* them: such a request reads the room (load), runs its handler on the
\* document it got (WriteStamp) and puts the whole document (WriteSave).
RaceJoinRequests ==
  {req \in JoinValid : req.userData = NoUserData /\ req.fault = "none"}

JoinLoad(req) ==
  /\ inFlight[req.userId] = Idle
  /\ Exists(store, req.roomId)
       => Len(RoomOf(store, req.roomId).activeUsers) < MaxActive
  /\ inFlight' = [inFlight EXCEPT ![req.userId] =
                    [pc |-> "loaded", op |-> "join_room", req |-> req,
                     snap |-> store]]
  /\ UNCHANGED <<variant, store, clock, last, joined, scenarioStep, client>>

NextRace ==
  \/ \E req \in LeaveRaceRequests : LeaveRoom(req) /\ UNCHANGED scenarioStep
  \/ CreateRoom(SampleCreate) /\ UNCHANGED scenarioStep
  \/ \E req \in RaceJoinRequests : JoinLoad(req)
  \/ \E req \in PollWriteRequests : WriteLoad(req)
  \/ \E u \in Users : WriteStamp(u)
  \/ \E u \in Users : WriteSave(u)

SpecRace == InitLog /\ [][NextRace]_vars

\* ------------------------ SpecSpoof: payloads that carry engine fields
\* The room of SpecLog and operation payloads that themselves carry userId,
\* timestamp and id fields, sent by either user while time passes, and
\* get_updates polls of both users.
SpoofOperations ==
  Operations
    \cup {[type |-> p, userId |-> u, timestamp |-> 0, id |-> "op_0"] :
            p \in Payloads, u \in Users}

SpoofRequests ==
  {req \in UpdateValid(SpoofOperations) :
     req.snapshot = "S1" /\ req.fault = "none"}

SpoofWrite(req) ==
  /\ LogHasRoom(req)
  /\ Serve(WriteOp, req, [operation |-> req.operation])
  /\ UNCHANGED joined

SpoofPollRequests ==
  {req \in GetUpdatesValid({"0", "1"}) : req.fault = "none"}

NextSpoof ==
  \/ \E req \in SpoofRequests : SpoofWrite(req) /\ UNCHANGED scenarioStep
  \/ \E req \in SpoofPollRequests : GetUpdates(req) /\ UNCHANGED scenarioStep
  \/ Tick /\ UNCHANGED scenarioStep

SpecSpoof == InitLog /\ [][NextSpoof]_vars

\* =================================================================== claims
ActiveOf(st, roomId) == RoomOf(st, roomId).activeUsers

BranchesOf(st, roomId) == RoomOf(st, roomId).userBranches

LogOf(st, roomId) == RoomOf(st, roomId).operations

Entries(activeUsers, id) ==
  {i \in 1..Len(activeUsers) : activeUsers[i].id = id}

\* ----------------------------------------------------------------- C1
\* C1 (branch variant): a successful join_room(r, u) leaves
\* userBranches[u].snapshot equal to the host snapshot stored when the join
\* arrived; and no update_user_branch, join_room or leave_room of a different
\* user that leaves the room in the store changes the snapshot of u's branch.
C1_JoinCopiesHost ==
  ( /\ variant = "branch"
    /\ last'.op = "join_room" /\ last'.status = 200
    /\ Exists(store, last'.roomId) /\ Exists(store', last'.roomId) )
    => /\ last'.userId \in DOMAIN BranchesOf(store', last'.roomId)
       /\ BranchesOf(store', last'.roomId)[last'.userId].snapshot
            = RoomOf(store, last'.roomId).snapshot

C1_OthersLeaveBranch ==
  \A r \in RoomIds : \A u \in Users :
    ( /\ variant = "branch"
      /\ Exists(store, r) /\ Exists(store', r)
      /\ u \in DOMAIN BranchesOf(store, r)
      /\ store' # store
      /\ last'.op \in {"update_user_branch", "join_room", "leave_room"}
      /\ last'.userId # u )
      => /\ u \in DOMAIN BranchesOf(store', r)
         /\ BranchesOf(store', r)[u].snapshot = BranchesOf(store, r)[u].snapshot

T_C1 == [][C1_JoinCopiesHost /\ C1_OthersLeaveBranch]_vars

\* C1 witness: u joined, then another user's branch write succeeded and the
\* two branches now differ.
W_C1 ==
  /\ variant = "branch"
  /\ last.op = "update_user_branch" /\ last.status = 200
  /\ \E u \in joined[last.roomId] :
       /\ u # last.userId
       /\ u \in DOMAIN BranchesOf(store, last.roomId)
       /\ BranchesOf(store, last.roomId)[u].snapshot
            # BranchesOf(store, last.roomId)[last.userId].snapshot

\* ----------------------------------------------------------------- C2
\* C2: when join_room succeeds for (roomId, userId) right after it succeeded
\* for the same (roomId, userId), activeUsers holds exactly one entry with
\* id = userId and the entries with that id are the ones held before.
CE_C2 ==
  [][\A req \in JoinValid :
       ( /\ last.op = "join_room" /\ last.status = 200
         /\ last.roomId = req.roomId /\ last.userId = req.userId
         /\ JoinRoom(req) /\ last'.status = 200 )
         => LET before == ActiveOf(store, req.roomId)
                after == ActiveOf(store', req.roomId)
            IN /\ Cardinality(Entries(after, req.userId)) = 1
               /\ SelectSeq(after, LAMBDA e : e.id = req.userId)
                    = SelectSeq(before, LAMBDA e : e.id = req.userId)]_vars

\* ----------------------------------------------------------------- C3
\* C3: no stored room has two activeUsers entries with the same id.
CE_C3 ==
  \A r \in RoomIds :
    Exists(store, r) =>
      \A i, j \in 1..Len(ActiveOf(store, r)) :
        ActiveOf(store, r)[i].id = ActiveOf(store, r)[j].id => i = j

\* ----------------------------------------------------------------- C4
\* C4: every stored room has a non-empty activeUsers list.
CE_C4 == \A r \in RoomIds : Exists(store, r) => Len(ActiveOf(store, r)) > 0

\* ----------------------------------------------------------------- C5
\* C5: after create_room(r1, u1), join_room(r1, u2), leave_room(r1, u1),
\* leave_room(r1, u2), served one after the other, r1 is absent from the store.
CE_C5 == scenarioStep = 4 => ~Exists(store, "r1")

\* ----------------------------------------------------------------- C6
\* The number a decimal lastSync text stands for.
Numeric(text) == \E n \in 0..(MaxClock + 1) : ToString(n) = text

NumberOf(text) == CHOOSE n \in 0..(MaxClock + 1) : ToString(n) = text

\* C6: for a get_updates(roomId, userId, lastSync) answered with success, the
\* returned updates are exactly the stored operations with timestamp > lastSync
\* and a userId other than the caller's, in stored order: the k-th returned
\* update is the k-th stored operation that satisfies both conditions.
T_C6 ==
  ( /\ last.op = "get_updates" /\ last.status = 200
    /\ Numeric(last.arg) )
    => LET ops == LogOf(store, last.roomId)
           updates == last.body.updates
           keep == {i \in 1..Len(ops) :
                      /\ ops[i].timestamp > NumberOf(last.arg)
                      /\ ops[i].userId # last.userId}
       IN /\ Len(updates) = Cardinality(keep)
          /\ \A i \in keep :
               updates[Cardinality({j \in keep : j <= i})] = ops[i]

\* C6 witness: an answer that returns an operation and leaves out both an
\* operation of the caller newer than lastSync and an operation of another
\* user not newer than lastSync.
W_C6 ==
  /\ last.op = "get_updates" /\ last.status = 200
  /\ Numeric(last.arg)
  /\ Len(last.body.updates) > 0
  /\ \E i, j \in 1..Len(LogOf(store, last.roomId)) :
       LET ops == LogOf(store, last.roomId)
       IN /\ ops[i].userId = last.userId
          /\ ops[i].timestamp > NumberOf(last.arg)
          /\ ops[j].userId # last.userId
          /\ ops[j].timestamp <= NumberOf(last.arg)

\* ----------------------------------------------------------------- C7
\* C7: an append to a log of 100 operations persists exactly 50 operations:
\* the last 49 of the old log in their order, then the new operation; an
\* append to a log of fewer than 100 operations persists the old log followed
\* by the new operation.
T_C7 ==
  [][\A req \in TruncRequests :
       (TruncAppend(req) /\ last'.status = 200)
         => LET old == LogOf(store, req.roomId)
                new == LogOf(store', req.roomId)
                isNew(op) == /\ op.timestamp = clock
                             /\ op.userId = req.userId
                             /\ op.type = req.operation.type
            IN /\ Len(old) = 100
                    => /\ Len(new) = 50
                       /\ \A i \in 1..49 : new[i] = old[51 + i]
                       /\ isNew(new[50])
               /\ Len(old) < 100
                    => /\ Len(new) = Len(old) + 1
                       /\ \A i \in 1..Len(old) : new[i] = old[i]
                       /\ isNew(new[Len(new)])]_vars

\* C7 witness: the append that made 101 operations has been served and the
\* log now starts at the 52nd operation ever appended.
W_C7 ==
  /\ last.op \in {"update_user_branch", "send_operation"}
  /\ last.status = 200
  /\ Len(LogOf(store, "r1")) = 50
  /\ LogOf(store, "r1")[1].timestamp = 52
  /\ LogOf(store, "r1")[50].timestamp = 101

\* ----------------------------------------------------------------- C8
\* C8: a create_room for a roomId that is in the store is answered with the
\* error AlreadyExists and leaves the store as it was.
CE_C8 ==
  [][(last'.op = "create_room" /\ last'.existed)
       => /\ last'.status # 200
          /\ last'.body.error = "AlreadyExists"
          /\ store' = store]_vars

\* ----------------------------------------------------------------- C9
\* C9 (branch variant): after a successful create_room the stored room has the
\* given snapshot, one branch, keyed by the creator and holding that snapshot,
\* no operations, and an activeUsers list that is exactly the creator with
\* isHost = true.
CE_C9 ==
  ( /\ variant = "branch"
    /\ last.op = "create_room" /\ last.status = 200 )
    => LET room == RoomOf(store, last.roomId)
       IN /\ room.snapshot = last.arg.snapshot
          /\ DOMAIN room.userBranches = {last.userId}
          /\ room.userBranches[last.userId].snapshot = last.arg.snapshot
          /\ room.operations = << >>
          /\ Len(room.activeUsers) = 1
          /\ room.activeUsers[1].id = last.userId
          /\ room.activeUsers[1].isHost

\* ---------------------------------------------------------------- C10
\* A create_room request with a body that lacks one of the fields named.
Lacks(served, fields) ==
  /\ served.op = "create_room" /\ served.arg.hasBody
  /\ \/ "roomId" \in fields /\ served.roomId = Absent
     \/ "roomData" \in fields /\ ~served.arg.hasRoomData
     \/ "userId" \in fields /\ served.userId = Absent
     \/ "snapshot" \in fields /\ served.arg.snapshot = Absent

Rejected(served) ==
  served.status = 400 /\ served.body = [error |-> "MissingField"]

T_C11 ==
  [][( /\ last'.op \in {"create_room", "join_room",
                        "update_user_branch", "send_operation"}
       /\ last'.status # 200 )
       => store' = store]_vars

\* C11 witness: a request on a stored room has been answered with a store
\* error.
W_C11 ==
  /\ last.op \in {"join_room", "update_user_branch", "send_operation"}
  /\ last.status = 500
  /\ last.existed
  /\ Exists(store, last.roomId)

\* ---------------------------------------------------------------- C12
\* C12: every leave_room request is answered with the generic success
\* response, whatever the request lacks, whatever room document create_room
\* has stored and whatever the store does.
CE_C12 ==
  last.op = "leave_room"
    => last.status = 200 /\ last.body = [success |-> TRUE]

\* ---------------------------------------------------------------- C13
\* C13: a leave_room(roomId, userId) that writes the room back changes only
\* its activeUsers, which loses the entries with id userId and keeps the
\* others in their order; userBranches (the leaver's branch included),
\* operations, snapshot and metadata stay as loaded.
T_C13 ==
  [][\A r \in RoomIds :
       ( /\ last'.op = "leave_room" /\ last'.roomId = r
         /\ Exists(store, r) /\ Exists(store', r)
         /\ store' # store )
         => LET old == RoomOf(store, r)
                new == RoomOf(store', r)
            IN /\ new.userBranches = old.userBranches
               /\ new.operations = old.operations
               /\ new.snapshot = old.snapshot
               /\ new.name = old.name
               /\ new.activeUsers
                    = SelectSeq(old.activeUsers,
                                LAMBDA e : e.id # last'.userId)]_vars

\* C13 witness: a user who had joined and holds a branch has left a room
\* that stays stored; the branch is still there and the activeUsers entry
\* is gone.
W_C13 ==
  /\ variant = "branch"
  /\ last.op = "leave_room" /\ last.existed
  /\ Exists(store, last.roomId)
  /\ last.userId \in joined[last.roomId]
  /\ last.userId \in DOMAIN BranchesOf(store, last.roomId)
  /\ Len(ActiveOf(store, last.roomId)) > 0
  /\ Entries(ActiveOf(store, last.roomId), last.userId) = {}

\* ---------------------------------------------------------------- C14
\* C14 (branch variant): when a user who joined a room and holds a branch
\* leaves while others stay active and then joins the room again, the
\* snapshot of the user's branch is the one the branch held before the join.
CE_C14 ==
  [][\A r \in RoomIds : \A u \in Users :
       ( /\ variant = "branch"
         /\ last'.op = "join_room" /\ last'.status = 200
         /\ last'.roomId = r /\ last'.userId = u
         /\ last.op = "leave_room" /\ last.roomId = r /\ last.userId = u
         /\ Exists(store, r)
         /\ u \in joined[r]
         /\ u \in DOMAIN BranchesOf(store, r)
         /\ Entries(ActiveOf(store, r), u) = {}
         /\ Len(ActiveOf(store, r)) > 0 )
         => BranchesOf(store', r)[u].snapshot
              = BranchesOf(store, r)[u].snapshot]_vars

\* ---------------------------------------------------------------- C15
\* What a successful update_user_branch leaves alone in every reading of the
\* claim: the host snapshot, activeUsers, the metadata, the branches of the
\* other users, and the operations log when no operation is supplied; and the
\* snapshot of the writer's branch is the supplied one.
C15_Frame(old, new, served) ==
  /\ new.userBranches[served.userId].snapshot = served.arg.snapshot
  /\ new.snapshot = old.snapshot
  /\ new.activeUsers = old.activeUsers
  /\ new.name = old.name
  /\ DOMAIN new.userBranches = DOMAIN old.userBranches \cup {served.userId}
  /\ \A v \in DOMAIN old.userBranches :
       v # served.userId => new.userBranches[v] = old.userBranches[v]
  /\ ~served.arg.hasOperation => new.operations = old.operations

\* A step that serves update_user_branch with success.
C15_Updated ==
  /\ variant = "branch"
  /\ clock' = clock
  /\ last'.op = "update_user_branch" /\ last'.status = 200

\* C15 as claimed: a successful update_user_branch sets the snapshot of the
\* writer's branch to the supplied one and changes nothing else but the
\* operations log when an operation is supplied: in particular the rest of
\* the writer's branch stays as it was.
CE_C15 ==
  [][C15_Updated =>
       LET old == RoomOf(store, last'.roomId)
           new == RoomOf(store', last'.roomId)
           u == last'.userId
       IN /\ C15_Frame(old, new, last')
          /\ u \in DOMAIN old.userBranches
               => new.userBranches[u].userName
                    = old.userBranches[u].userName]_vars

\* C15 as amended: besides the snapshot, the writer's branch gets the default
\* userName when it had none (or did not exist) and keeps its userName
\* otherwise; a supplied operation is appended to the log (of fewer than 100
\* operations) with the server's time and the writer's userId.
T_C15 ==
  [][C15_Updated =>
       LET old == RoomOf(store, last'.roomId)
           new == RoomOf(store', last'.roomId)
           u == last'.userId
           named == /\ u \in DOMAIN old.userBranches
                    /\ old.userBranches[u].userName # Absent
       IN /\ C15_Frame(old, new, last')
          /\ named => new.userBranches[u].userName
                        = old.userBranches[u].userName
          /\ ~named => new.userBranches[u].userName = "user_" \o u
          /\ (last'.arg.hasOperation /\ Len(old.operations) < 100)
               => /\ Len(new.operations) = Len(old.operations) + 1
                  /\ \A i \in 1..Len(old.operations) :
                       new.operations[i] = old.operations[i]
                  /\ new.operations[Len(new.operations)].timestamp = clock
                  /\ new.operations[Len(new.operations)].userId = u]_vars

\* C15 witness: a branch write with an operation has succeeded while another
\* user holds a branch with a different snapshot.
W_C15 ==
  /\ variant = "branch"
  /\ last.op = "update_user_branch" /\ last.status = 200
  /\ last.arg.hasOperation
  /\ \E v \in DOMAIN BranchesOf(store, last.roomId) :
       /\ v # last.userId
       /\ BranchesOf(store, last.roomId)[v].snapshot # last.arg.snapshot

\* ---------------------------------------------------------------- C16
\* The step in which the get_updates poll of client p is answered.
Answered(p) ==
  /\ inFlight[p].pc = "loaded"
  /\ inFlight[p].op = "get_updates"
  /\ inFlight'[p] = Idle

\* C16: no gaps. When a poll of a client is answered, every operation of
\* another user in the log the poll read from the store (so saved before the
\* poll) has been returned by this poll or by an earlier poll of the client.
\* Later polls pass a lastSync no smaller than the timestamp of such an
\* operation, so an operation missing here is never delivered.
CE_C16 ==
  [][\A p \in Users :
       Answered(p) =>
         LET ops == RoomOf(inFlight[p].snap, "r1").operations
         IN \A i \in 1..Len(ops) :
              ops[i].userId # p => ops[i] \in client'[p].delivered]_vars

\* ---------------------------------------------------------------- C17
\* C17: no duplicates. No operation returned by a poll of a client had been
\* returned by an earlier poll of that client, in every interleaving with
\* the writes of the other users, the clock never going back.
T_C17 ==
  [][\A p \in Users :
       Answered(p) =>
         \A i \in 1..Len(last'.body.updates) :
           last'.body.updates[i] \notin client[p].delivered]_vars

\* C17 witness: a poll that passed the lastSync of an earlier poll has
\* returned an operation, and an earlier poll had returned another one.
W_C17 ==
  /\ last.op = "get_updates" /\ last.status = 200
  /\ last.arg # "0"
  /\ Len(last.body.updates) > 0
  /\ \E op \in client[last.userId].delivered :
       \A i \in 1..Len(last.body.updates) : last.body.updates[i] # op

\* ---------------------------------------------------------------- C20
\* C20 (branch variant): once the branch writes of u1 and of u2 have both
\* been answered with success and no request is in flight, the stored branch
\* of each of them holds the snapshot of that user's last successful write,
\* however the loads and saves of the two requests were interleaved.
CE_C20 ==
  ( /\ variant = "branch"
    /\ \A u \in Users : inFlight[u] = Idle
    /\ \A u \in Users : client[u].wrote # Absent )
    => \A u \in Users :
         BranchesOf(store, "r1")[u].snapshot = client[u].wrote

\* ---------------------------------------------------------------- C18
\* C18: get_updates and get_room_info leave the store as it was, whatever
\* they answer, and a successful get_room_info answers with the host snapshot
\* the store holds.
T_C18 ==
  [][last'.op \in {"get_updates", "get_room_info"}
       => /\ store' = store
          /\ (last'.op = "get_room_info" /\ last'.status = 200)
               => last'.body.snapshot
                    = RoomOf(store, last'.roomId).snapshot]_vars

\* C18 witness: get_room_info has answered with the snapshot of a stored
\* room, here the second of the two snapshots used.
W_C18 ==
  /\ last.op = "get_room_info" /\ last.status = 200
  /\ last.body.snapshot = "S2"
  /\ RoomOf(store, last.roomId).snapshot = "S2"

\* ---------------------------------------------------------------- C19
\* C19: join_room, update_user_branch, send_operation, get_updates and
\* get_room_info answer NotFound only when the room key is absent from the
\* store; a failed store read is never answered NotFound.
CE_C19 ==
  ( /\ last.op \in {"join_room", "update_user_branch", "send_operation",
                    "get_updates", "get_room_info"}
    /\ last.status = 404 )
    => ~last.existed

\* ---------------------------------------------------------------- C21
\* C21: once the leave_room requests of u1 and of u2, the two users in
\* activeUsers, have both been answered and none is in flight, the room key
\* is absent from the store, however their loads and saves were interleaved
\* (no join_room or create_room is issued).
CE_C21 ==
  ( /\ \A u \in Users : client[u].left
    /\ \A u \in Users : inFlight[u] = Idle )
    => ~Exists(store, "r1")

\* ---------------------------------------------------------------- C22
\* C22: the room key passes from absent to present only in the step that
\* answers a successful create_room; no join_room, update_user_branch or
\* send_operation, whenever it read the room, brings the room back.
CE_C22 ==
  [][(~Exists(store, "r1") /\ Exists(store', "r1"))
       => (last'.op = "create_room" /\ last'.status = 200)]_vars

\* ---------------------------------------------------------------- C23
\* C23, in the scenario create_room(r1, u1), join_room(r1, u2),
\* leave_room(r1, u1), leave_room(r1, u2): the room key is removed only by
\* the leave_room of u2, the last of the two users to leave, and only by a
\* leave_room whose userId is listed in the stored activeUsers.
CE_C23 ==
  [][(Exists(store, "r1") /\ ~Exists(store', "r1"))
       => /\ last'.op = "leave_room"
          /\ scenarioStep' = 4
          /\ Entries(ActiveOf(store, "r1"), last'.userId) # {}]_vars

\* ---------------------------------------------------------------- C24
LogOrdered(operations) ==
  \A i, j \in 1..Len(operations) :
    i < j => operations[i].timestamp <= operations[j].timestamp

IsSuffix(s, t) == \E k \in 0..Len(t) : s = SubSeq(t, k + 1, Len(t))

\* The step in which the put of the write request of user u is served.
Saved(u) ==
  /\ inFlight[u].pc = "stamped"
  /\ inFlight[u].out.status = 200
  /\ inFlight'[u] = Idle

\* C24: with a clock that never goes back and writes whose loads, stamps and
\* saves interleave in any way, the timestamps of every stored log are
\* non-decreasing from first to last entry, and each save stores a log whose
\* last entry is the operation of the request being saved, after entries
\* that the request read, kept in the order it read them.
T_C24 ==
  [][/\ LogOrdered(LogOf(store', "r1"))
     /\ \A u \in Users :
          Saved(u) =>
            LET new == LogOf(store', "r1")
                old == LogOf(inFlight[u].snap, "r1")
            IN /\ Len(new) >= 1
               /\ new[Len(new)].userId = u
               /\ new[Len(new)].type = inFlight[u].req.operation.type
               /\ IsSuffix(SubSeq(new, 1, Len(new) - 1), old)]_vars

\* C24 witness: a write has been saved and the stored log holds the
\* operations of two users, stamped at different instants.
W_C24 ==
  /\ last.op \in {"update_user_branch", "send_operation"}
  /\ last.status = 200
  /\ Len(LogOf(store, "r1")) = 2
  /\ LogOf(store, "r1")[1].userId # LogOf(store, "r1")[2].userId
  /\ LogOf(store, "r1")[1].timestamp < LogOf(store, "r1")[2].timestamp

\* ---------------------------------------------------------------- C25
\* C25: the keys of the stored userBranches are the creator's userId, set by
\* a successful create_room, and the userIds of successful join_room
\* requests; no other request, update_user_branch included, adds a key.
CE_C25 ==
  [][Exists(store', "r1") =>
       LET new == DOMAIN BranchesOf(store', "r1")
       IN IF last'.op = "create_room" /\ last'.status = 200
          THEN new \subseteq {last'.userId}
          ELSE new \subseteq
                 DOMAIN BranchesOf(store, "r1")
                   \cup (IF last'.op = "join_room" /\ last'.status = 200
                         THEN {last'.userId} ELSE {})]_vars

T_C27 ==
  [][/\ (last'.op \in {"update_user_branch", "send_operation"}
          /\ last'.status = 200 /\ clock' = clock)
         => LET new == LogOf(store', last'.roomId)
                op == new[Len(new)]
            IN /\ op.userId = last'.userId
               /\ op.timestamp = clock
               /\ op.id = "op_" \o ToString(clock)
               /\ op.type = last'.arg.operation.type
               /\ DOMAIN op = {"type", "userId", "timestamp", "id"}
     /\ (last'.op = "get_updates" /\ last'.status = 200)
         => \A i \in 1..Len(last'.body.updates) :
              last'.body.updates[i].userId # last'.userId]_vars

\* C27 witness: a payload naming the other user as author, with a timestamp
\* and an id of its own, has been stored under the sender's userId.
W_C27 ==
  /\ last.op \in {"update_user_branch", "send_operation"}
  /\ last.status = 200
  /\ "userId" \in DOMAIN last.arg.operation
  /\ last.arg.operation.userId # last.userId
  /\ LET log == LogOf(store, last.roomId)
     IN /\ log[Len(log)].userId = last.userId
        /\ log[Len(log)].timestamp # last.arg.operation.timestamp
        /\ log[Len(log)].id # last.arg.operation.id

====
